---- MODULE Spec2Model ----
(***************************************************************************)
(* Node lifecycle and acquisition of maas_extra/nodes.py (the patched MAAS *)
(* node API handlers): the registry of nodes, the acquire handler run by   *)
(* concurrent requests under locks.node_acquire, the single-node and bulk  *)
(* release handlers, the status / substatus views of a node, enlistment    *)
(* and acceptance, and the commission, mark_broken, mark_fixed,            *)
(* abort_operation and check_commissioning transitions; and the run of     *)
(* install_maas of maas_deploy/fabfile.py on the controller host.          *)
(***************************************************************************)
EXTENDS Integers, FiniteSets, Sequences, TLC

\* ------------------------------------------------------------------ bounds
NumNodes == 2
NumProcs == 2

\* settings.COMMISSIONING_TIMEOUT, in ticks of the clock of the model
COMMISSIONING_TIMEOUT == 2

\* The prompts of install_maas are counted up to MaxPrompts.
MaxPrompts == 3

SystemIds == 1..NumNodes
Procs == 1..NumProcs

\* -------------------------------------------------- NODE_STATUS (enum values)
\* NODE_STATUS.NEW (NEW is a reserved word of TLA+)
NEW_STATUS == 0
COMMISSIONING == 1
FAILED_COMMISSIONING == 2
READY == 4
RESERVED == 5
DEPLOYED == 6
RETIRED == 7
BROKEN == 8
DEPLOYING == 9
ALLOCATED == 10
FAILED_DEPLOYMENT == 11
RELEASING == 12
FAILED_RELEASING == 13
DISK_ERASING == 14
FAILED_DISK_ERASING == 15

NODE_STATUS ==
  {NEW_STATUS, COMMISSIONING, FAILED_COMMISSIONING, READY, RESERVED, ALLOCATED,
   DEPLOYING, DEPLOYED, RELEASING, DISK_ERASING, FAILED_DEPLOYMENT,
   FAILED_RELEASING, FAILED_DISK_ERASING, BROKEN, RETIRED}

\* maasserver.models.node.RELEASABLE_STATUSES
RELEASABLE_STATUSES ==
  {ALLOCATED, DEPLOYING, DEPLOYED, FAILED_DEPLOYMENT, DISK_ERASING,
   FAILED_DISK_ERASING, RELEASING, FAILED_RELEASING}

\* Statuses in which a node belongs to a user.
OwnedStatuses ==
  {ALLOCATED, DEPLOYING, DEPLOYED, RELEASING, DISK_ERASING,
   FAILED_DEPLOYMENT, FAILED_RELEASING, FAILED_DISK_ERASING}

\* ------------------------------------------------------------------- users
NoUser == "None"
Users == {"alice", "bob"}
Admin == "admin"
Actors == Users \cup {Admin}

is_superuser(u) == u = Admin

\* ----------------------------------------------------------- the registry
NoAgent == ""

\* The architecture the node with system_id n is enlisted with when the
\* request comes from EnlistRequest(n); acquire never changes it.
Architecture(n) == IF n % 2 = 1 THEN "amd64/generic" ELSE "i386/generic"

\* The `arch` constraint of an acquire request ("" when absent).
NoArch == ""

\* The `networks` constraint of an acquire request when absent: no specifier.
NoNetworks == <<>>

\* The acquire requests that are sent: the requesting user, the agent_name
\* and the arch constraint of request.data (bob's requests carry no agent_name).
AcquireRequests ==
  {[user |-> "alice", agent_name |-> "juju", arch |-> "amd64/generic",
    networks |-> NoNetworks],
   [user |-> "bob", agent_name |-> NoAgent, arch |-> NoArch,
    networks |-> NoNetworks],
   [user |-> "bob", agent_name |-> NoAgent, arch |-> "i386/generic",
    networks |-> NoNetworks]}

\* A network specifier `vlan:<tag>` of the `networks` constraint, as the
\* sequence of its tokens: the prefix, the colon, the digits of the tag.
VlanSpecs ==
  {<<"vlan", ":", "0">>, <<"vlan", ":", "1">>, <<"vlan", ":", "2", "3">>,
   <<"vlan", ":", "4", "0", "9", "5">>, <<"vlan", ":", "4", "0", "9", "6">>}

\* Acquire requests with a VLAN constraint: one network specifier each.
VlanAcquireRequests ==
  {[user |-> "bob", agent_name |-> NoAgent, arch |-> NoArch,
    networks |-> <<v>>] : v \in VlanSpecs}

\* The VLAN tag of the network a node is attached to.
NodeVlanTag(n) == IF n % 2 = 1 THEN 23 ELSE 4095

\* The agent_name of the nodes a user holds when the model starts.
AgentOf(u) == IF u = "alice" THEN "juju" ELSE NoAgent

\* Node.error_description: empty unless mark_broken recorded a reason.
NoDescription == ""

\* The values of the optional `error_description` parameter of mark_broken
\* (get_optional_param defaults it to '').
ErrorDescriptions == {NoDescription, "psu failure"}

\* The time since the `updated` timestamp of a row is counted in ticks up to
\* MaxAge, the first age beyond the commissioning timeout.
MaxAge == COMMISSIONING_TIMEOUT + 1

\* The status field of a system_id that has no row yet (Node.DoesNotExist).
NoStatus == -1

\* The registry entry of a system_id that has no row yet.
NoNode ==
  [status |-> NoStatus, owner |-> NoUser, agent_name |-> NoAgent,
   error_description |-> NoDescription, architecture |-> NoArch, age |-> 0]

VARIABLES
  nodes,     \* system_id -> [status, owner, agent_name, error_description,
             \* architecture, age]: the maasserver_node rows, `age` being
             \* the time since the `updated` timestamp of the row
  lock,      \* holder of locks.node_acquire, 0 when free
  pc,        \* position of each acquire request
  req,       \* the data of each acquire request
  picked,    \* the node get_first returned to each acquire request, 0 if none
  grants,    \* system_id -> acquire calls that returned it since its last release
  resp,      \* the response of the last handler call other than acquire
  install    \* the run of install_maas: its position, its local variables
             \* and the controller host it works on

vars == <<nodes, lock, pc, req, picked, grants, resp, install>>

NoReq ==
  [user |-> NoUser, agent_name |-> NoAgent, arch |-> NoArch,
   networks |-> NoNetworks]
NoResp == [op |-> "none"]

\* The system_ids that have a row in the registry.
ExistingIds == {n \in SystemIds : nodes[n] # NoNode}

\* ------------------------------------------------------ permission oracle
\* NODE_PERMISSION.VIEW: a node is visible to its owner, to everybody when it
\* has no owner, and to superusers.
canView(u, node) == is_superuser(u) \/ node.owner \in {NoUser, u}
\* NODE_PERMISSION.EDIT: the owner of the node, or a superuser.
canEdit(u, node) == is_superuser(u) \/ node.owner = u

\* ------------------------------------------------------------ node methods
\* Node.acquire(user, token, agent_name)
Node_acquire(node, user, agent_name) ==
  [node EXCEPT !.status = ALLOCATED, !.owner = user, !.agent_name = agent_name,
               !.age = 0]

\* The statuses release_or_erase may leave the node in: READY, or RELEASING
\* until the erase / power-off workflow reports completion.
ReleaseOutcomes == {READY, RELEASING}

\* Node.release_or_erase(), leaving the node in status st
Node_release_or_erase(node, st) ==
  [node EXCEPT !.status = st, !.owner = NoUser, !.agent_name = NoAgent,
               !.age = 0]

\* A set of registry rows as a query set: the sequence of their identifiers in
\* the registry's order, which is by identifier.
RECURSIVE QuerySet(_)
QuerySet(ids) ==
  IF ids = {} THEN <<>>
  ELSE LET first == CHOOSE n \in ids : \A m \in ids : n <= m
       IN <<first>> \o QuerySet(ids \ {first})

\* ------------------------------------------------------------ status views
old_allocated_status_aliases ==
  {ALLOCATED, DEPLOYING, DEPLOYED, FAILED_DEPLOYMENT}
old_deployed_status_aliases ==
  {RELEASING, DISK_ERASING, FAILED_RELEASING, FAILED_DISK_ERASING}
deployed_aliases == old_allocated_status_aliases \cup old_deployed_status_aliases

\* `return 6  # Old allocated status.`
OldAllocatedStatus == 6

\* Faulty variant: only the allocated aliases are folded.
NodeHandler_status_allocated_only(node) ==
  IF node.status \in old_allocated_status_aliases
  THEN OldAllocatedStatus
  ELSE node.status

\* NodeHandler.status(node): the backward-compatible (coarse) status
NodeHandler_status(node) ==
  IF node.status \in deployed_aliases THEN OldAllocatedStatus ELSE node.status

\* Faulty variant: substatus exposes the folded status.
NodeHandler_substatus_folded(node) ==
  IF node.status \in deployed_aliases THEN OldAllocatedStatus ELSE node.status

\* NodeHandler.substatus(node)
NodeHandler_substatus(node) == node.status

\* A node as the API renders it (DISPLAYED_NODE_FIELDS: system_id, status and
\* substatus; the other fields are not modelled).
Render(n) ==
  [system_id |-> n,
   status |-> NodeHandler_status(nodes[n]),
   substatus |-> NodeHandler_substatus(nodes[n])]

\* NodeHandler.read(request, system_id)
NodeHandler_read(u, n) ==
  /\ resp' = IF canView(u, nodes[n])
             THEN [op |-> "read", code |-> 200, called |-> {}, node |-> Render(n)]
             ELSE [op |-> "read", code |-> 403, called |-> {}]
  /\ UNCHANGED <<nodes, lock, pc, req, picked, grants, install>>

\* Node.objects.get_nodes(user, perm, ids): the nodes among ids the user has
\* the permission on (all nodes when ids is None).
get_nodes(u, perm, ids) ==
  {n \in ids \cap ExistingIds :
     IF perm = "view" THEN canView(u, nodes[n])
     ELSE IF perm = "edit" THEN canEdit(u, nodes[n])
     ELSE is_superuser(u)}

\* NodesHandler.list(request), without filters: the visible nodes by id
NodesHandler_list(u) ==
  /\ LET ns == QuerySet(get_nodes(u, "view", SystemIds))
     IN resp' = [op |-> "list", code |-> 200, called |-> {},
                 body |-> [i \in 1..Len(ns) |-> Render(ns[i])]]
  /\ UNCHANGED <<nodes, lock, pc, req, picked, grants, install>>

\* ------------------------------------------------------------------ acquire
\* The number a decimal digit stands for.
DigitValue(c) == CHOOSE d \in 0..9 : ToString(d) = c

\* int(text) of a sequence of decimal digits
RECURSIVE parse_int(_)
parse_int(digits) ==
  IF digits = <<>> THEN 0
  ELSE 10 * parse_int(SubSeq(digits, 1, Len(digits) - 1))
       + DigitValue(digits[Len(digits)])

\* The tag a `vlan:<tag>` specifier names.
vlan_tag(spec) == parse_int(SubSeq(spec, 3, Len(spec)))

\* AcquireNodeForm.is_valid(): "Valid VLAN tags must be in the range of 1 to
\* 4095 inclusive" (the other constraints of the requests are valid).
AcquireNodeForm_is_valid(r) ==
  \A i \in DOMAIN r.networks : vlan_tag(r.networks[i]) \in 1..4095

\* Node.objects.get_available_nodes_for_acquisition(user)
get_available_nodes_for_acquisition(user) ==
  QuerySet({n \in SystemIds : /\ nodes[n].status = READY
                              /\ nodes[n].owner = NoUser
                              /\ canView(user, nodes[n])})

\* AcquireNodeForm.filter_nodes(nodes): the nodes that meet the constraints of
\* the request, in the order of the query set.
filter_nodes(r, ns) ==
  LET matches(n) ==
        /\ r.arch = NoArch \/ nodes[n].architecture = r.arch
        /\ \A i \in DOMAIN r.networks :
             vlan_tag(r.networks[i]) = NodeVlanTag(n)
  IN SelectSeq(ns, matches)

\* get_first(nodes): the first node of the query set, 0 (None) when empty
get_first(ns) == IF ns = <<>> THEN 0 ELSE Head(ns)

\* Faulty variant: the form is not validated before the lock is taken.
AcquireStart_unvalidated(p, r) ==
  /\ pc[p] = "idle"
  /\ req' = [req EXCEPT ![p] = r]
  /\ pc' = [pc EXCEPT ![p] = "valid"]
  /\ UNCHANGED <<nodes, lock, picked, grants, resp, install>>

\* acquire, lines 1056-1062: the request is received and its form validated;
\* ValidationError is raised when the form is not valid.
AcquireStart(p, r) ==
  /\ pc[p] = "idle"
  /\ req' = [req EXCEPT ![p] = r]
  /\ pc' = [pc EXCEPT ![p] = IF AcquireNodeForm_is_valid(r)
                             THEN "valid" ELSE "invalid"]
  /\ UNCHANGED <<nodes, lock, picked, grants, resp, install>>

\* Faulty variant: the handler enters the critical section without the lock.
LockFree_unchecked == TRUE

\* `with locks.node_acquire:` is entered when nobody holds the lock.
LockFree == lock = 0

\* acquire, line 1066: entering the `with` block takes the lock.
AcquireLock(p) ==
  /\ pc[p] = "valid"
  /\ LockFree
  /\ lock' = p
  /\ pc' = [pc EXCEPT ![p] = "locked"]
  /\ UNCHANGED <<nodes, req, picked, grants, resp, install>>

\* Faulty variant: the last node of the query set is picked, not the first.
AcquirePick_last(p) ==
  /\ pc[p] = "locked"
  /\ LET ns == filter_nodes(req[p],
                 get_available_nodes_for_acquisition(req[p].user))
         node == IF ns = <<>> THEN 0 ELSE ns[Len(ns)]
     IN IF node = 0
        THEN /\ pc' = [pc EXCEPT ![p] = "nomatch"]
             /\ lock' = 0
             /\ UNCHANGED picked
        ELSE /\ pc' = [pc EXCEPT ![p] = "picked"]
             /\ picked' = [picked EXCEPT ![p] = node]
             /\ UNCHANGED lock
  /\ UNCHANGED <<nodes, req, grants, resp, install>>

\* Faulty variant: with no match the handler waits, holding the lock, until a
\* node becomes available.
AcquirePick_waits(p) ==
  /\ pc[p] = "locked"
  /\ LET node == get_first(filter_nodes(req[p],
                   get_available_nodes_for_acquisition(req[p].user)))
     IN /\ node # 0
        /\ pc' = [pc EXCEPT ![p] = "picked"]
        /\ picked' = [picked EXCEPT ![p] = node]
        /\ UNCHANGED lock
  /\ UNCHANGED <<nodes, req, grants, resp, install>>

\* acquire, lines 1067-1081: read the pool, filter, pick the first; with no
\* match NodesNotAvailable is raised and leaving the `with` block frees the lock.
AcquirePick(p) ==
  /\ pc[p] = "locked"
  /\ LET node == get_first(filter_nodes(req[p],
                   get_available_nodes_for_acquisition(req[p].user)))
     IN IF node = 0
        THEN /\ pc' = [pc EXCEPT ![p] = "nomatch"]
             /\ lock' = 0
             /\ UNCHANGED picked
        ELSE /\ pc' = [pc EXCEPT ![p] = "picked"]
             /\ picked' = [picked EXCEPT ![p] = node]
             /\ UNCHANGED lock
  /\ UNCHANGED <<nodes, req, grants, resp, install>>

\* Faulty variant: the agent_name of the request is not passed to node.acquire.
AcquireMark_drops_agent(p) ==
  /\ pc[p] = "picked"
  /\ nodes' = [nodes EXCEPT ![picked[p]] =
                 Node_acquire(nodes[picked[p]], req[p].user, NoAgent)]
  /\ grants' = [grants EXCEPT ![picked[p]] = @ + 1]
  /\ pc' = [pc EXCEPT ![p] = "granted"]
  /\ lock' = 0
  /\ UNCHANGED <<req, picked, resp, install>>

\* acquire, lines 1082-1086: node.acquire(...) saves the node and the handler
\* returns it; leaving the `with` block frees the lock.
AcquireMark(p) ==
  /\ pc[p] = "picked"
  /\ nodes' = [nodes EXCEPT ![picked[p]] =
                 Node_acquire(nodes[picked[p]], req[p].user, req[p].agent_name)]
  /\ grants' = [grants EXCEPT ![picked[p]] = @ + 1]
  /\ pc' = [pc EXCEPT ![p] = "granted"]
  /\ lock' = 0
  /\ UNCHANGED <<req, picked, resp, install>>

\* Faulty variant: the lock is not freed when node.acquire raises.
AcquireFail_keeps_lock(p) ==
  /\ pc[p] = "picked"
  /\ pc' = [pc EXCEPT ![p] = "error"]
  /\ req' = [req EXCEPT ![p] = NoReq]
  /\ picked' = [picked EXCEPT ![p] = 0]
  /\ UNCHANGED <<nodes, lock, grants, resp, install>>

\* acquire, lines 1083-1085: node.acquire(...) raises (the save fails); the
\* exception leaves the `with` block, which frees the lock.
AcquireFail(p) ==
  /\ pc[p] = "picked"
  /\ pc' = [pc EXCEPT ![p] = "error"]
  /\ lock' = 0
  /\ req' = [req EXCEPT ![p] = NoReq]
  /\ picked' = [picked EXCEPT ![p] = 0]
  /\ UNCHANGED <<nodes, grants, resp, install>>

\* The response of a finished acquire request is delivered; the worker is
\* free for the next request.
AcquireReturn(p) ==
  /\ pc[p] \in {"granted", "nomatch", "error", "invalid"}
  /\ pc' = [pc EXCEPT ![p] = "idle"]
  /\ req' = [req EXCEPT ![p] = NoReq]
  /\ picked' = [picked EXCEPT ![p] = 0]
  /\ UNCHANGED <<nodes, lock, grants, resp, install>>

\* ------------------------------------------------------------------ release
\* The response of a single-node operation: the HTTP status code and the
\* nodes on which release_or_erase was called while serving it.
Response(op, code, called) == [op |-> op, code |-> code, called |-> called]

\* Faulty variant: a releasable node is answered like a READY one, and
\* release_or_erase is not called.
NodeHandler_release_not_called(u, n) ==
  /\ IF ~canEdit(u, nodes[n])
     THEN resp' = Response("release", 403, {})
     ELSE IF nodes[n].status \in {READY} \cup RELEASABLE_STATUSES
     THEN resp' = Response("release", 200, {})
     ELSE resp' = Response("release", 409, {})
  /\ UNCHANGED <<nodes, grants, lock, pc, req, picked, install>>

\* Faulty variant: a READY node is not treated as already released.
NodeHandler_release_no_ready_case(u, n) ==
  /\ IF ~canEdit(u, nodes[n])
     THEN /\ resp' = Response("release", 403, {})
          /\ UNCHANGED <<nodes, grants, install>>
     ELSE IF nodes[n].status \in RELEASABLE_STATUSES
     THEN /\ \E st \in ReleaseOutcomes :
               nodes' = [nodes EXCEPT ![n] = Node_release_or_erase(nodes[n], st)]
          /\ grants' = [grants EXCEPT ![n] = 0]
          /\ resp' = Response("release", 200, {n})
     ELSE /\ resp' = Response("release", 409, {})
          /\ UNCHANGED <<nodes, grants, install>>
  /\ UNCHANGED <<lock, pc, req, picked, install>>

\* Faulty variant: every node that is not READY is released, whatever its status.
NodeHandler_release_unchecked(u, n) ==
  /\ IF ~canEdit(u, nodes[n])
     THEN /\ resp' = Response("release", 403, {})
          /\ UNCHANGED <<nodes, grants, install>>
     ELSE IF nodes[n].status = READY
     THEN /\ resp' = Response("release", 200, {})
          /\ UNCHANGED <<nodes, grants, install>>
     ELSE /\ \E st \in ReleaseOutcomes :
               nodes' = [nodes EXCEPT ![n] = Node_release_or_erase(nodes[n], st)]
          /\ grants' = [grants EXCEPT ![n] = 0]
          /\ resp' = Response("release", 200, {n})
  /\ UNCHANGED <<lock, pc, req, picked, install>>

\* NodeHandler.release(request, system_id), lines 373-385
NodeHandler_release(u, n) ==
  /\ IF ~canEdit(u, nodes[n])
     THEN \* get_node_or_404 raises PermissionDenied
          /\ resp' = Response("release", 403, {})
          /\ UNCHANGED <<nodes, grants, install>>
     ELSE IF nodes[n].status = READY
     THEN \* nothing to do
          /\ resp' = Response("release", 200, {})
          /\ UNCHANGED <<nodes, grants, install>>
     ELSE IF nodes[n].status \in RELEASABLE_STATUSES
     THEN /\ \E st \in ReleaseOutcomes :
               nodes' = [nodes EXCEPT ![n] = Node_release_or_erase(nodes[n], st)]
          /\ grants' = [grants EXCEPT ![n] = 0]
          /\ resp' = Response("release", 200, {n})
     ELSE \* NodeStateViolation
          /\ resp' = Response("release", 409, {})
          /\ UNCHANGED <<nodes, grants, install>>
  /\ UNCHANGED <<lock, pc, req, picked, install>>

\* A system_id no node of the registry has.
UnknownId == 0

\* The sets of system_ids a bulk request may carry.
IdSets == SUBSET (SystemIds \cup {UnknownId})

\* Faulty variant: the existence of the ids is not checked.
check_system_ids_exist_skipped(system_ids) == {}

\* NodesHandler._check_system_ids_exist(system_ids): the unknown ids the
\* MAASAPIBadRequest names, {} when the check passes.
check_system_ids_exist(system_ids) ==
  IF system_ids = {} THEN {} ELSE system_ids \ ExistingIds

\* The response of a bulk operation: the user and ids of the request, the HTTP status
\* code, the ids the response names (the released ids on success, the ids the
\* error message lists otherwise; their order is not modelled) and the nodes
\* on which release_or_erase was called.
BulkResponse(op, u, ids, code, body, called) ==
  [op |-> op, user |-> u, ids |-> ids, code |-> code, body |-> body,
   called |-> called]

\* Faulty variant: the nodes that cannot be released are skipped silently.
NodesHandler_release_ignores_failed(u, system_ids) ==
  /\ LET unknown_ids == check_system_ids_exist(system_ids)
         permitted_ids == get_nodes(u, "edit", system_ids)
         released_ids == {n \in permitted_ids :
                           nodes[n].status # READY
                           /\ nodes[n].status \in RELEASABLE_STATUSES}
     IN IF unknown_ids # {}
        THEN /\ resp' = BulkResponse("bulk_release", u, system_ids, 400,
                                      unknown_ids, {})
             /\ UNCHANGED <<nodes, grants, install>>
        ELSE IF Cardinality(permitted_ids) < Cardinality(system_ids)
        THEN /\ resp' = BulkResponse("bulk_release", u, system_ids, 403,
                                      system_ids \ permitted_ids, {})
             /\ UNCHANGED <<nodes, grants, install>>
        ELSE /\ \E st \in [released_ids -> ReleaseOutcomes] :
                  nodes' = [n \in SystemIds |->
                              IF n \in released_ids
                              THEN Node_release_or_erase(nodes[n], st[n])
                              ELSE nodes[n]]
             /\ grants' = [n \in SystemIds |->
                             IF n \in released_ids THEN 0 ELSE grants[n]]
             /\ resp' = BulkResponse("bulk_release", u, system_ids, 200,
                                      released_ids, released_ids)
  /\ UNCHANGED <<lock, pc, req, picked, install>>

\* NodesHandler.release(request), lines 902-933
NodesHandler_release(u, system_ids) ==
  /\ LET unknown_ids == check_system_ids_exist(system_ids)
         permitted_ids == get_nodes(u, "edit", system_ids)
         released_ids == {n \in permitted_ids :
                           nodes[n].status # READY
                           /\ nodes[n].status \in RELEASABLE_STATUSES}
         failed == {n \in permitted_ids :
                     nodes[n].status # READY
                     /\ nodes[n].status \notin RELEASABLE_STATUSES}
     IN IF unknown_ids # {}
        THEN \* MAASAPIBadRequest
             /\ resp' = BulkResponse("bulk_release", u, system_ids, 400,
                                      unknown_ids, {})
             /\ UNCHANGED <<nodes, grants, install>>
        ELSE IF Cardinality(permitted_ids) < Cardinality(system_ids)
        THEN \* PermissionDenied
             /\ resp' = BulkResponse("bulk_release", u, system_ids, 403,
                                      system_ids \ permitted_ids, {})
             /\ UNCHANGED <<nodes, grants, install>>
        ELSE /\ \E st \in [released_ids -> ReleaseOutcomes] :
                  nodes' = [n \in SystemIds |->
                              IF n \in released_ids
                              THEN Node_release_or_erase(nodes[n], st[n])
                              ELSE nodes[n]]
             /\ grants' = [n \in SystemIds |->
                             IF n \in released_ids THEN 0 ELSE grants[n]]
             /\ resp' = IF failed # {}
                        THEN \* NodeStateViolation, after the loop
                             BulkResponse("bulk_release", u, system_ids, 409,
                                          failed, released_ids)
                        ELSE BulkResponse("bulk_release", u, system_ids, 200,
                                          released_ids, released_ids)
  /\ UNCHANGED <<lock, pc, req, picked, install>>

\* --------------------------------------------------------- lifecycle engine
\* The statuses of a node whose enlistment was accepted already:
\* accept_enlistment returns None for them.
AcceptedStatuses == {COMMISSIONING, READY}

\* Node.start_commissioning(user): what accept_enlistment does to a NEW node
\* and the Commission action does to a node it is valid for.
Node_start_commissioning(node) ==
  [node EXCEPT !.status = COMMISSIONING, !.age = 0]

\* The statuses the Commission node action is valid for.
CommissionableStatuses == {NEW_STATUS, READY, FAILED_COMMISSIONING}

\* NodeActionForm.is_valid() for the Commission action: the action is offered
\* to administrators, on nodes in a commissionable status.
canCommission(u, node) ==
  is_superuser(u) /\ node.status \in CommissionableStatuses

\* Node.mark_broken(error_description): releases the node when it is owned,
\* then sets BROKEN, without owner, with the description recorded.
Node_mark_broken(node, error_description) ==
  [node EXCEPT !.status = BROKEN, !.owner = NoUser, !.agent_name = NoAgent,
               !.error_description = error_description, !.age = 0]

\* Node.mark_fixed() on a BROKEN node
Node_mark_fixed(node) ==
  [node EXCEPT !.status = READY, !.error_description = NoDescription,
               !.age = 0]

\* The statuses abort_operation may revert a DISK_ERASING node to: the status
\* the node had when the erasure began.
AbortOutcomes == RELEASABLE_STATUSES \ {DISK_ERASING}

\* Node.abort_operation(user) on a DISK_ERASING node, reverting to status st
Node_abort_operation(node, st) == [node EXCEPT !.status = st, !.age = 0]

\* NodeHandler.commission(request, system_id), lines 400-408
NodeHandler_commission(u, n) ==
  /\ n \in ExistingIds
  /\ IF canCommission(u, nodes[n])
     THEN \* form.save()
          /\ nodes' = [nodes EXCEPT ![n] = Node_start_commissioning(nodes[n])]
          /\ resp' = Response("commission", 200, {n})
     ELSE \* ValidationError
          /\ resp' = Response("commission", 400, {})
          /\ UNCHANGED nodes
  /\ UNCHANGED <<lock, pc, req, picked, grants, install>>

\* Faulty variant: the error_description of the request is not passed on.
NodeHandler_mark_broken_no_reason(u, n, error_description) ==
  /\ n \in ExistingIds
  /\ IF ~canEdit(u, nodes[n])
     THEN /\ resp' = Response("mark_broken", 403, {})
          /\ UNCHANGED <<nodes, grants, install>>
     ELSE /\ nodes' = [nodes EXCEPT
                         ![n] = Node_mark_broken(nodes[n], NoDescription)]
          /\ grants' = [grants EXCEPT ![n] = 0]
          /\ resp' = Response("mark_broken", 200, {n})
  /\ UNCHANGED <<lock, pc, req, picked, install>>

\* NodeHandler.mark_broken(request, system_id), lines 506-511
NodeHandler_mark_broken(u, n, error_description) ==
  /\ n \in ExistingIds
  /\ IF ~canEdit(u, nodes[n])
     THEN \* get_node_or_404 raises PermissionDenied
          /\ resp' = Response("mark_broken", 403, {})
          /\ UNCHANGED <<nodes, grants, install>>
     ELSE /\ nodes' = [nodes EXCEPT
                         ![n] = Node_mark_broken(nodes[n], error_description)]
          /\ grants' = [grants EXCEPT ![n] = 0]
          /\ resp' = Response("mark_broken", 200, {n})
  /\ UNCHANGED <<lock, pc, req, picked, install>>

\* Faulty variant: the status of the node is not checked, any node is made
\* READY.
NodeHandler_mark_fixed_unchecked(u, n) ==
  /\ n \in ExistingIds
  /\ IF ~is_superuser(u)
     THEN /\ resp' = Response("mark_fixed", 403, {})
          /\ UNCHANGED nodes
     ELSE /\ nodes' = [nodes EXCEPT ![n] = Node_mark_fixed(nodes[n])]
          /\ resp' = Response("mark_fixed", 200, {n})
  /\ UNCHANGED <<lock, pc, req, picked, grants, install>>

\* NodeHandler.mark_fixed(request, system_id), lines 520-527
NodeHandler_mark_fixed(u, n) ==
  /\ n \in ExistingIds
  /\ IF ~is_superuser(u)
     THEN \* get_node_or_404(perm=ADMIN) raises PermissionDenied
          /\ resp' = Response("mark_fixed", 403, {})
          /\ UNCHANGED nodes
     ELSE IF nodes[n].status = BROKEN
     THEN /\ nodes' = [nodes EXCEPT ![n] = Node_mark_fixed(nodes[n])]
          /\ resp' = Response("mark_fixed", 200, {n})
     ELSE \* NodeStateViolation
          /\ resp' = Response("mark_fixed", 409, {})
          /\ UNCHANGED nodes
  /\ UNCHANGED <<lock, pc, req, picked, grants, install>>

\* NodeHandler.abort_operation(request, system_id), lines 609-614
NodeHandler_abort_operation(u, n) ==
  /\ n \in ExistingIds
  /\ IF ~canEdit(u, nodes[n])
     THEN /\ resp' = Response("abort_operation", 403, {})
          /\ UNCHANGED nodes
     ELSE IF nodes[n].status = DISK_ERASING
     THEN /\ \E st \in AbortOutcomes :
               nodes' = [nodes EXCEPT ![n] = Node_abort_operation(nodes[n], st)]
          /\ resp' = Response("abort_operation", 200, {n})
     ELSE \* NodeStateViolation
          /\ resp' = Response("abort_operation", 409, {})
          /\ UNCHANGED nodes
  /\ UNCHANGED <<lock, pc, req, picked, grants, install>>

\* ------------------------------------------------- enlistment and acceptance
\* The user of a request that carries no credentials.
Anonymous == "anonymous"

\* The text of a request parameter is a sequence of tokens, '/' being a token
\* of its own; Str is the string the tokens spell.
RECURSIVE Str(_)
Str(s) == IF s = <<>> THEN "" ELSE Head(s) \o Str(Tail(s))

\* The `architecture` parameters that are sent ('' included; the parameter may
\* also be absent): bare, with a '/', and malformed ones.
ArchitectureValues ==
  {<<>>, <<"amd64">>, <<"i386">>, <<"amd64", "/", "generic">>,
   <<"amd64", "/">>, <<"amd64", "/", "generic", "/", "generic">>}

\* The `subarchitecture` parameters that are sent.
SubarchitectureValues == {<<>>, <<"highbank">>, <<"/">>}

\* request.data of an enlistment: a dictionary from the parameters present
\* to their text.
EnlistRequests ==
  {d \in UNION {[K -> ArchitectureValues \cup SubarchitectureValues
                        \cup {<<"1">>}] :
                  K \in SUBSET {"architecture", "subarchitecture",
                                "autodetect_nodegroup"}} :
     /\ "architecture" \in DOMAIN d => d["architecture"] \in ArchitectureValues
     /\ "subarchitecture" \in DOMAIN d =>
          d["subarchitecture"] \in SubarchitectureValues
     /\ "autodetect_nodegroup" \in DOMAIN d =>
          d["autodetect_nodegroup"] = <<"1">>}

\* The enlistment request of the node with system_id n where the requests
\* are not varied: a bare architecture, the nodegroup to be detected.
EnlistRequest(n) ==
  [k \in {"architecture", "autodetect_nodegroup"} |->
     IF k = "autodetect_nodegroup" THEN <<"1">>
     ELSE IF n % 2 = 1 THEN <<"amd64">> ELSE <<"i386">>]

\* request.data.get(key, None) is truthy: the parameter is present and not ''.
given(data, key) == key \in DOMAIN data /\ data[key] # <<>>

\* create_node, line 636: `'/' in given_arch`
has_slash(text) == \E i \in DOMAIN text : text[i] = "/"

\* create_node, lines 633-651: altered_query_data after the architecture has
\* been worked over (where 'Subarchitecture cannot be specified twice' is not
\* raised).
altered_query_data(data) ==
  IF given(data, "architecture") /\ has_slash(data["architecture"])
  THEN data
  ELSE IF given(data, "architecture")
  THEN IF given(data, "subarchitecture")
       THEN [k \in DOMAIN data \ {"subarchitecture"} |->
               IF k = "architecture"
               THEN data["architecture"] \o <<"/">> \o data["subarchitecture"]
               ELSE data[k]]
       ELSE [data EXCEPT !["architecture"] = @ \o <<"/", "generic">>]
  ELSE data

\* The architecture field of the node create form accepts `arch/subarch`:
\* one '/', a name before it and a name after it; the field is required.
form_is_valid(query_data) ==
  /\ "architecture" \in DOMAIN query_data
  /\ LET text == query_data["architecture"]
     IN \E i \in DOMAIN text :
          /\ 1 < i /\ i < Len(text)
          /\ \A j \in DOMAIN text : text[j] = "/" <=> j = i

\* Faulty variant: a bare architecture is given no subarchitecture, the form
\* sees the request as it came.
create_node_raises_as_sent(data) ==
  \/ /\ given(data, "architecture") /\ has_slash(data["architecture"])
     /\ given(data, "subarchitecture")
  \/ "autodetect_nodegroup" \notin DOMAIN data
  \/ ~form_is_valid(data)

\* create_node raises ValidationError: the subarchitecture is specified twice
\* (line 639), neither nodegroup nor autodetect_nodegroup is given (lines
\* 653-662; no request of the model names a nodegroup), or the form rejects
\* the altered request (line 677).
create_node_raises(data) ==
  \/ /\ given(data, "architecture") /\ has_slash(data["architecture"])
     /\ given(data, "subarchitecture")
  \/ "autodetect_nodegroup" \notin DOMAIN data
  \/ ~form_is_valid(altered_query_data(data))

\* The row form.save() creates in create_node: "The node will be in the New
\* state."
create_node(data) ==
  [status |-> NEW_STATUS, owner |-> NoUser, agent_name |-> NoAgent,
   error_description |-> NoDescription,
   architecture |-> Str(altered_query_data(data)["architecture"]),
   age |-> 0]

\* The answer to an enlistment request: the node created, or 400 for a
\* ValidationError.
NewResponse(code, called, data) ==
  [op |-> "new", code |-> code, called |-> called, data |-> data]

\* Node.accept_enlistment(user) raises NodeStateViolation: the node is neither
\* NEW nor accepted already.
accept_enlistment_fails(node) ==
  node.status \notin ({NEW_STATUS} \cup AcceptedStatuses)

\* Node.accept_enlistment(user), where it does not raise: a NEW node starts
\* commissioning, an accepted node is left as it is (and None is returned).
Node_accept_enlistment(node) ==
  IF node.status = NEW_STATUS THEN Node_start_commissioning(node) ELSE node

\* AnonNodesHandler.new(request), lines 692-711: the new row gets a system_id
\* that no row has.
AnonNodesHandler_new(n, data) ==
  /\ n \in SystemIds \ ExistingIds
  /\ IF create_node_raises(data)
     THEN /\ resp' = NewResponse(400, {}, data)
          /\ UNCHANGED nodes
     ELSE /\ nodes' = [nodes EXCEPT ![n] = create_node(data)]
          /\ resp' = NewResponse(200, {n}, data)
  /\ UNCHANGED <<lock, pc, req, picked, grants, install>>

\* AnonNodesHandler.accept(request), lines 730-736
AnonNodesHandler_accept ==
  /\ resp' = Response("anon_accept", 401, {})
  /\ UNCHANGED <<nodes, lock, pc, req, picked, grants, install>>

\* Faulty variant: the new node is accepted whoever creates it.
NodesHandler_new_accepts_always(u, n, data) ==
  /\ n \in SystemIds \ ExistingIds
  /\ IF create_node_raises(data)
     THEN /\ resp' = NewResponse(400, {}, data)
          /\ UNCHANGED nodes
     ELSE /\ nodes' = [nodes EXCEPT
                         ![n] = Node_accept_enlistment(create_node(data))]
          /\ resp' = NewResponse(200, {n}, data)
  /\ UNCHANGED <<lock, pc, req, picked, grants, install>>

\* NodesHandler.new(request), lines 766-769
NodesHandler_new(u, n, data) ==
  /\ n \in SystemIds \ ExistingIds
  /\ IF create_node_raises(data)
     THEN /\ resp' = NewResponse(400, {}, data)
          /\ UNCHANGED nodes
     ELSE /\ LET node == create_node(data)
             IN nodes' = [nodes EXCEPT
                            ![n] = IF is_superuser(u)
                                   THEN Node_accept_enlistment(node)
                                   ELSE node]
          /\ resp' = NewResponse(200, {n}, data)
  /\ UNCHANGED <<lock, pc, req, picked, grants, install>>

\* Faulty variant: the permission check is left out, the nodes the user has
\* the permission on are accepted.
NodesHandler_accept_permitted_only(u, system_ids) ==
  /\ LET unknown_ids == check_system_ids_exist(system_ids)
         permitted_ids == get_nodes(u, "admin", system_ids)
         raising == {n \in permitted_ids : accept_enlistment_fails(nodes[n])}
         reached == {n \in permitted_ids : \A m \in raising : n < m}
         accepted == {n \in reached : nodes[n].status = NEW_STATUS}
     IN IF unknown_ids # {}
        THEN /\ resp' = BulkResponse("accept", u, system_ids, 400,
                                      unknown_ids, {})
             /\ UNCHANGED nodes
        ELSE /\ nodes' = [n \in SystemIds |->
                            IF n \in accepted
                            THEN Node_accept_enlistment(nodes[n])
                            ELSE nodes[n]]
             /\ resp' = IF raising # {}
                        THEN BulkResponse("accept", u, system_ids, 409,
                                          {Head(QuerySet(raising))}, accepted)
                        ELSE BulkResponse("accept", u, system_ids, 200,
                                          accepted, accepted)
  /\ UNCHANGED <<lock, pc, req, picked, grants, install>>

\* NodesHandler.accept(request), lines 809-822. The list comprehension calls
\* accept_enlistment on the permitted nodes in the order of the query set and
\* ends at the first call that raises.
NodesHandler_accept(u, system_ids) ==
  /\ LET unknown_ids == check_system_ids_exist(system_ids)
         permitted_ids == get_nodes(u, "admin", system_ids)
         raising == {n \in permitted_ids : accept_enlistment_fails(nodes[n])}
         reached == {n \in permitted_ids : \A m \in raising : n < m}
         accepted == {n \in reached : nodes[n].status = NEW_STATUS}
     IN IF unknown_ids # {}
        THEN \* MAASAPIBadRequest
             /\ resp' = BulkResponse("accept", u, system_ids, 400,
                                      unknown_ids, {})
             /\ UNCHANGED nodes
        ELSE IF Cardinality(permitted_ids) < Cardinality(system_ids)
        THEN \* PermissionDenied
             /\ resp' = BulkResponse("accept", u, system_ids, 403,
                                      system_ids \ permitted_ids, {})
             /\ UNCHANGED nodes
        ELSE /\ nodes' = [n \in SystemIds |->
                            IF n \in accepted
                            THEN Node_accept_enlistment(nodes[n])
                            ELSE nodes[n]]
             /\ resp' = IF raising # {}
                        THEN \* NodeStateViolation, raised by accept_enlistment
                             BulkResponse("accept", u, system_ids, 409,
                                          {Head(QuerySet(raising))}, accepted)
                        ELSE BulkResponse("accept", u, system_ids, 200,
                                          accepted, accepted)
  /\ UNCHANGED <<lock, pc, req, picked, grants, install>>

\* Faulty variant: the nodes the call did not change are not filtered out of
\* the result.
NodesHandler_accept_all_unfiltered(u) ==
  /\ LET admin_nodes == get_nodes(u, "admin", SystemIds)
         declared == {n \in admin_nodes : nodes[n].status = NEW_STATUS}
     IN /\ nodes' = [n \in SystemIds |->
                       IF n \in declared
                       THEN Node_accept_enlistment(nodes[n])
                       ELSE nodes[n]]
        /\ resp' = BulkResponse("accept_all", u, {}, 200, admin_nodes, declared)
  /\ UNCHANGED <<lock, pc, req, picked, grants, install>>

\* NodesHandler.accept_all(request), lines 836-841
NodesHandler_accept_all(u) ==
  /\ LET declared == {n \in get_nodes(u, "admin", SystemIds) :
                        nodes[n].status = NEW_STATUS}
     IN /\ nodes' = [n \in SystemIds |->
                       IF n \in declared
                       THEN Node_accept_enlistment(nodes[n])
                       ELSE nodes[n]]
        /\ resp' = BulkResponse("accept_all", u, {}, 200, declared, declared)
  /\ UNCHANGED <<lock, pc, req, picked, grants, install>>

\* Faulty variant: the UPDATE has no condition on the `updated` timestamp.
NodesHandler_check_commissioning_untimed(u) ==
  LET overdue == {n \in ExistingIds : nodes[n].status = COMMISSIONING}
  IN /\ nodes' = [n \in SystemIds |->
                    IF n \in overdue
                    THEN [nodes[n] EXCEPT !.status = FAILED_COMMISSIONING,
                                          !.age = 0]
                    ELSE nodes[n]]
     /\ resp' = BulkResponse("check_commissioning", u, {}, 200, overdue,
                             overdue)
     /\ UNCHANGED <<lock, pc, req, picked, grants, install>>

\* NodesHandler.check_commissioning(request), lines 868-882: the UPDATE moves
\* the COMMISSIONING rows with `updated <= now() - timeout` to
\* FAILED_COMMISSIONING, sets their `updated` to now() and returns them.
NodesHandler_check_commissioning(u) ==
  LET overdue == {n \in ExistingIds :
                    /\ nodes[n].status = COMMISSIONING
                    /\ nodes[n].age >= COMMISSIONING_TIMEOUT}
  IN /\ nodes' = [n \in SystemIds |->
                    IF n \in overdue
                    THEN [nodes[n] EXCEPT !.status = FAILED_COMMISSIONING,
                                          !.age = 0]
                    ELSE nodes[n]]
     /\ resp' = BulkResponse("check_commissioning", u, {}, 200, overdue,
                             overdue)
     /\ UNCHANGED <<lock, pc, req, picked, grants, install>>

\* A tick of the database's clock: every row is one tick older.
Tick ==
  /\ nodes' = [n \in SystemIds |->
                 IF n \in ExistingIds /\ nodes[n].age < MaxAge
                 THEN [nodes[n] EXCEPT !.age = @ + 1]
                 ELSE nodes[n]]
  /\ UNCHANGED <<lock, pc, req, picked, grants, resp, install>>

\* Node.get_deployment_status()
get_deployment_status(node) ==
  IF node.status = DEPLOYED THEN "Deployed"
  ELSE IF node.status = DEPLOYING THEN "Deploying"
  ELSE IF node.status = FAILED_DEPLOYMENT THEN "Failed deployment"
  ELSE "Not in deployment"

\* NodesHandler.deployment_status(request), lines 1141-1159
NodesHandler_deployment_status(u, system_ids) ==
  /\ LET unknown_ids == check_system_ids_exist(system_ids)
         permitted_ids == get_nodes(u, "view", system_ids)
     IN resp' =
          IF unknown_ids # {}
          THEN \* MAASAPIBadRequest
               BulkResponse("deployment_status", u, system_ids, 400,
                            unknown_ids, {})
          ELSE IF Cardinality(permitted_ids) # Cardinality(system_ids)
          THEN \* PermissionDenied
               BulkResponse("deployment_status", u, system_ids, 403,
                            system_ids \ permitted_ids, {})
          ELSE BulkResponse("deployment_status", u, system_ids, 200,
                            [n \in permitted_ids |->
                               get_deployment_status(nodes[n])], {})
  /\ UNCHANGED <<nodes, lock, pc, req, picked, grants, install>>

\* The completion report of the erase / power-off workflow for a RELEASING
\* node: the release is finalised, the node is READY.
release_complete(n) ==
  /\ n \in ExistingIds
  /\ nodes[n].status = RELEASING
  /\ nodes' = [nodes EXCEPT ![n] = Node_release_or_erase(nodes[n], READY)]
  /\ grants' = [grants EXCEPT ![n] = 0]
  /\ resp' = Response("release_complete", 200, {n})
  /\ UNCHANGED <<lock, pc, req, picked, install>>

\* ------------------------------------------------- install_maas (fabfile)
\* The answers typed at the prompt "Correct? [y/n]:".
Answers == {"y", "n", "Y", "N", "yes", ""}

\* The device names typed at the prompt for the ethernet device.
EthNames == {"eth0", "eth1", "em1", "p2p1", "wlan0", ""}

\* A file that does not exist: no text, no lines.
NoText == ""
NoLines == <<>>

\* The etherwake line of the stock ether_wake.template (searchExp, line 38),
\* and the line sed puts in its place (replaceExp, line 39).
searchExp == "/usr/sbin/etherwake $mac_address"

replaceExp(eth_name) ==
  "sudo /usr/sbin/etherwake -i " \o eth_name \o " $mac_address"

\* The local file 99-maas-sudoers and the line appended to it (line 45).
LocalSudoers == <<"# sudoers file of maas">>

SudoersText == "maas ALL= NOPASSWD: /usr/sbin/etherwake"

\* install_maas before its first statement, on a controller without MAAS.
\* `answer` and `eth_name` are not bound yet.
NotStarted ==
  [pc |-> "add_repository", answer |-> "<unbound>", eth_name |-> "<unbound>",
   device_prompts |-> 0, confirm_prompts |-> 0,
   ppa |-> FALSE, apt_updated |-> FALSE,
   power_template |-> NoText,    \* /etc/maas/templates/power/ether_wake.template
   tmp_template |-> NoText,      \* /tmp/ether_wake.template
   tmp_template_bak |-> FALSE,   \* /tmp/ether_wake.template.bak
   tmp_sudoers |-> NoLines,      \* /tmp/99-maas-sudoers
   sudoers |-> NoLines]          \* /etc/sudoers.d/99-maas-sudoers

\* What every step of install_maas leaves alone: the registry of the MAAS
\* server and its requests.
InstallFrame == UNCHANGED <<nodes, lock, pc, req, picked, grants, resp>>

\* line 26: sudo('add-apt-repository ppa:maas-maintainers/stable')
install_maas_add_repository ==
  /\ install.pc = "add_repository"
  /\ install' = [install EXCEPT !.pc = "apt_update", !.ppa = TRUE]
  /\ InstallFrame

\* line 27: sudo('apt-get update')
install_maas_apt_update ==
  /\ install.pc = "apt_update"
  /\ install' = [install EXCEPT !.pc = "apt_install", !.apt_updated = TRUE]
  /\ InstallFrame

\* lines 28-30: sudo('apt-get install -y maas maas-dhcp maas-dns'), which
\* brings the stock power template; answer = 'unknown'
install_maas_apt_install ==
  /\ install.pc = "apt_install"
  /\ install' = [install EXCEPT !.pc = "while", !.power_template = searchExp,
                                !.answer = "unknown"]
  /\ InstallFrame

\* line 31: while answer != 'y' or answer != 'n'
install_maas_while ==
  /\ install.pc = "while"
  /\ install' = [install EXCEPT
                   !.pc = IF install.answer # "y" \/ install.answer # "n"
                          THEN "ask_device" ELSE "returned"]
  /\ InstallFrame

\* lines 32-33: eth_name = raw_input(...)
install_maas_ask_device(input) ==
  /\ install.pc = "ask_device"
  /\ install.device_prompts < MaxPrompts
  /\ install' = [install EXCEPT !.pc = "ask_confirm", !.eth_name = input,
                                !.device_prompts = @ + 1]
  /\ InstallFrame

\* lines 34-35: answer = raw_input("Correct? [y/n]:"); if answer == 'y'
install_maas_ask_confirm(input) ==
  /\ install.pc = "ask_confirm"
  /\ install.confirm_prompts < MaxPrompts
  /\ install' = [install EXCEPT
                   !.pc = IF input = "y" THEN "put_template" ELSE "else",
                   !.answer = input,
                   !.confirm_prompts = @ + 1]
  /\ InstallFrame

\* line 36: put(.../ether_wake.template, '/tmp/ether_wake.template')
install_maas_put_template ==
  /\ install.pc = "put_template"
  /\ install' = [install EXCEPT !.pc = "sed", !.tmp_template = searchExp]
  /\ InstallFrame

\* lines 37-40: sed(config_file, searchExp, replaceExp) edits the file in
\* place and keeps a .bak copy.
install_maas_sed ==
  /\ install.pc = "sed"
  /\ install' = [install EXCEPT
                   !.pc = "mv_template",
                   !.tmp_template = IF @ = searchExp
                                    THEN replaceExp(install.eth_name) ELSE @,
                   !.tmp_template_bak = TRUE]
  /\ InstallFrame

\* line 41: sudo('mv /tmp/ether_wake.template /etc/maas/templates/power/...')
install_maas_mv_template ==
  /\ install.pc = "mv_template"
  /\ install' = [install EXCEPT !.pc = "rm_template_bak",
                                !.power_template = install.tmp_template,
                                !.tmp_template = NoText]
  /\ InstallFrame

\* line 42: run('rm -rf ' + config_file + '.bak')
install_maas_rm_template_bak ==
  /\ install.pc = "rm_template_bak"
  /\ install' = [install EXCEPT !.pc = "put_sudoers",
                                !.tmp_template_bak = FALSE]
  /\ InstallFrame

\* line 43: put(.../99-maas-sudoers, '/tmp/99-maas-sudoers')
install_maas_put_sudoers ==
  /\ install.pc = "put_sudoers"
  /\ install' = [install EXCEPT !.pc = "append", !.tmp_sudoers = LocalSudoers]
  /\ InstallFrame

\* lines 44-46: append(config_file, text, ...)
install_maas_append ==
  /\ install.pc = "append"
  /\ install' = [install EXCEPT !.pc = "mv_sudoers",
                                !.tmp_sudoers = Append(@, SudoersText)]
  /\ InstallFrame

\* line 47: sudo('mv /tmp/99-maas-sudoers /etc/sudoers.d/99-maas-sudoers')
install_maas_mv_sudoers ==
  /\ install.pc = "mv_sudoers"
  /\ install' = [install EXCEPT !.pc = "rm_sudoers_bak",
                                !.sudoers = install.tmp_sudoers,
                                !.tmp_sudoers = NoLines]
  /\ InstallFrame

\* lines 48-50: run('rm -rf ' + config_file + '.bak'), a file that does not
\* exist; return
install_maas_rm_sudoers_bak ==
  /\ install.pc = "rm_sudoers_bak"
  /\ install' = [install EXCEPT !.pc = "returned"]
  /\ InstallFrame

\* Faulty variant: the else branch does not return, the loop goes on.
install_maas_else_loops ==
  /\ install.pc = "else"
  /\ install' = [install EXCEPT !.pc = "while"]
  /\ InstallFrame

\* lines 51-54: the else branch prints its messages and returns.
install_maas_else ==
  /\ install.pc = "else"
  /\ install' = [install EXCEPT !.pc = "returned"]
  /\ InstallFrame

\* ---------------------------------------------------------- specifications
\* A registry row by status and owner: an owner exactly in the owned
\* statuses. The row has just been updated; its architecture is set when it
\* is placed in the registry.
NodeRows(statuses) ==
  {[status |-> s, owner |-> o, agent_name |-> NoAgent,
    error_description |-> NoDescription, architecture |-> NoArch,
    age |-> 0] :
     s \in statuses \cap (NODE_STATUS \ OwnedStatuses), o \in {NoUser}}
  \cup
  {[status |-> s, owner |-> o, agent_name |-> AgentOf(o),
    error_description |-> NoDescription, architecture |-> NoArch,
    age |-> 0] :
     s \in statuses \cap OwnedStatuses, o \in Users}

\* Rows that have been COMMISSIONING for longer than the timeout.
OverdueRows == {[r EXCEPT !.age = MaxAge] : r \in NodeRows({COMMISSIONING})}

\* The registry made of the given rows: the row of system_id n was enlisted
\* with Architecture(n).
Registry(rows) ==
  [n \in SystemIds |->
     IF rows[n] = NoNode THEN NoNode
     ELSE [rows[n] EXCEPT !.architecture = Architecture(n)]]

\* The registry contents the acquisition runs start from.
AcquireInitStatuses == {READY, ALLOCATED}

Init ==
  /\ \E rows \in [SystemIds -> NodeRows(AcquireInitStatuses)] :
       nodes = Registry(rows)
  /\ lock = 0
  /\ pc = [p \in Procs |-> "idle"]
  /\ req = [p \in Procs |-> NoReq]
  /\ picked = [p \in Procs |-> 0]
  /\ grants = [n \in SystemIds |-> IF nodes[n].status = ALLOCATED THEN 1 ELSE 0]
  /\ resp = NoResp
  /\ install = NotStarted

Next ==
  \/ \E p \in Procs, r \in AcquireRequests : AcquireStart(p, r)
  \/ \E p \in Procs : AcquireLock(p)
  \/ \E p \in Procs : AcquirePick(p)
  \/ \E p \in Procs : AcquireMark(p)
  \/ \E p \in Procs : AcquireFail(p)
  \/ \E p \in Procs : AcquireReturn(p)
  \/ \E u \in Actors, n \in SystemIds : NodeHandler_release(u, n)

Spec == Init /\ [][Next]_vars

\* Acquire requests alone: every worker serves one acquire request and nothing
\* else runs, so the pool only shrinks by the grants of these requests.
RaceNext ==
  \/ \E p \in Procs, r \in AcquireRequests : AcquireStart(p, r)
  \/ \E p \in Procs : AcquireLock(p)
  \/ \E p \in Procs : AcquirePick(p)
  \/ \E p \in Procs : AcquireMark(p)
  \/ \E p \in Procs : AcquireFail(p)

SpecRace == Init /\ [][RaceNext]_vars

\* The registry the lifecycle operations start from: the first node in any
\* status, the other nodes in one of LifeInitStatuses.
LifeInitStatuses == {NEW_STATUS, READY, ALLOCATED}

LifeInit ==
  /\ \E rows \in [SystemIds -> NodeRows(NODE_STATUS)] :
       nodes = Registry(rows)
  /\ \A n \in SystemIds \ {1} : nodes[n].status \in LifeInitStatuses
  /\ lock = 0
  /\ pc = [p \in Procs |-> "idle"]
  /\ req = [p \in Procs |-> NoReq]
  /\ picked = [p \in Procs |-> 0]
  /\ grants = [n \in SystemIds |-> IF nodes[n].status = ALLOCATED THEN 1 ELSE 0]
  /\ resp = NoResp
  /\ install = NotStarted

LifeNext ==
  \/ \E u \in Actors, n \in SystemIds : NodeHandler_read(u, n)
  \/ \E u \in Actors : NodesHandler_list(u)
  \/ \E u \in Actors, n \in SystemIds : NodeHandler_release(u, n)
  \/ \E u \in Actors, ids \in IdSets : NodesHandler_release(u, ids)

SpecLifecycle == LifeInit /\ [][LifeNext]_vars

\* The lifecycle engine: enlistment, acceptance, commissioning, the
\* single-node transitions, the bulk operations and the completion of
\* releases. The first system_id has a row in any status, the others have no
\* row yet or a row in one of EngineInitStatuses.
EngineInitStatuses == {NEW_STATUS, ALLOCATED}

EngineInit ==
  /\ \E rows \in [SystemIds ->
                    NodeRows(NODE_STATUS) \cup OverdueRows \cup {NoNode}] :
       nodes = Registry(rows)
  /\ nodes[1] # NoNode
  /\ \A n \in SystemIds \ {1} :
       nodes[n] = NoNode \/ nodes[n].status \in EngineInitStatuses
  /\ lock = 0
  /\ pc = [p \in Procs |-> "idle"]
  /\ req = [p \in Procs |-> NoReq]
  /\ picked = [p \in Procs |-> 0]
  /\ grants = [n \in SystemIds |-> IF nodes[n].status = ALLOCATED THEN 1 ELSE 0]
  /\ resp = NoResp
  /\ install = NotStarted

EngineNext ==
  \/ \E n \in SystemIds : AnonNodesHandler_new(n, EnlistRequest(n))
  \/ AnonNodesHandler_accept
  \/ \E u \in Actors, n \in SystemIds :
       NodesHandler_new(u, n, EnlistRequest(n))
  \/ \E u \in Actors, n \in SystemIds : NodesHandler_accept(u, {n})
  \/ \E u \in Actors : NodesHandler_accept_all(u)
  \/ \E u \in Actors : NodesHandler_check_commissioning(u)
  \/ \E u \in Actors, n \in SystemIds : NodeHandler_commission(u, n)
  \/ \E u \in Actors, n \in SystemIds, d \in ErrorDescriptions :
       NodeHandler_mark_broken(u, n, d)
  \/ \E u \in Actors, n \in SystemIds : NodeHandler_mark_fixed(u, n)
  \/ \E u \in Actors, n \in SystemIds : NodeHandler_abort_operation(u, n)
  \/ \E u \in Actors, n \in ExistingIds : NodeHandler_release(u, n)
  \/ \E n \in SystemIds : release_complete(n)

SpecEngine == EngineInit /\ [][EngineNext]_vars

\* The lifecycle engine together with acquire requests, served by one worker
\* while the other operations run.
OwnershipNext ==
  \/ EngineNext
  \/ \E r \in AcquireRequests : AcquireStart(1, r)
  \/ AcquireLock(1)
  \/ AcquirePick(1)
  \/ AcquireMark(1)
  \/ AcquireFail(1)
  \/ AcquireReturn(1)

SpecOwnership == EngineInit /\ [][OwnershipNext]_vars

\* The bulk operations of NodesHandler, on the registry the lifecycle
\* operations start from.
BulkNext ==
  \/ \E u \in Actors, ids \in IdSets : NodesHandler_accept(u, ids)
  \/ \E u \in Actors : NodesHandler_accept_all(u)
  \/ \E u \in Actors, ids \in IdSets : NodesHandler_release(u, ids)
  \/ \E u \in Actors, ids \in IdSets : NodesHandler_deployment_status(u, ids)

\* The first node in any status, the second in one of LifeInitStatuses, the
\* nodes after them enlisted and not accepted yet.
BulkInit ==
  /\ LifeInit
  /\ \A n \in SystemIds \ {1, 2} : nodes[n].status = NEW_STATUS

SpecBulk == BulkInit /\ [][BulkNext]_vars

\* Enlistment with every request of EnlistRequests, by anonymous and by
\* authenticated callers, on a registry where the last system_id has no row
\* yet.
EnlistNext ==
  \/ \E n \in SystemIds, data \in EnlistRequests : AnonNodesHandler_new(n, data)
  \/ \E u \in Actors, n \in SystemIds, data \in EnlistRequests :
       NodesHandler_new(u, n, data)

EnlistInit ==
  /\ EngineInit
  /\ \A n \in SystemIds : nodes[n] = NoNode <=> n = NumNodes

SpecEnlist == EnlistInit /\ [][EnlistNext]_vars

\* Acquire requests with a VLAN constraint, every worker serving one request
\* after the other.
ConstraintNext ==
  \/ \E p \in Procs, r \in VlanAcquireRequests : AcquireStart(p, r)
  \/ \E p \in Procs : AcquireLock(p)
  \/ \E p \in Procs : AcquirePick(p)
  \/ \E p \in Procs : AcquireMark(p)
  \/ \E p \in Procs : AcquireFail(p)
  \/ \E p \in Procs : AcquireReturn(p)

SpecConstraint == Init /\ [][ConstraintNext]_vars

\* Commissioning against the clock: nodes are commissioned, time passes, and
\* check_commissioning is run. Every node has a row, NEW, COMMISSIONING or
\* READY, of any age.
TimeoutInitStatuses == {NEW_STATUS, COMMISSIONING, READY}

TimeoutInit ==
  /\ \E rows \in [SystemIds ->
                    {[r EXCEPT !.age = g] :
                       r \in NodeRows(TimeoutInitStatuses),
                       g \in 0..MaxAge}] :
       nodes = Registry(rows)
  /\ lock = 0
  /\ pc = [p \in Procs |-> "idle"]
  /\ req = [p \in Procs |-> NoReq]
  /\ picked = [p \in Procs |-> 0]
  /\ grants = [n \in SystemIds |-> 0]
  /\ resp = NoResp
  /\ install = NotStarted

TimeoutNext ==
  \/ Tick
  \/ \E u \in Actors : NodesHandler_check_commissioning(u)
  \/ \E u \in Actors, n \in SystemIds : NodeHandler_commission(u, n)

SpecTimeout == TimeoutInit /\ [][TimeoutNext]_vars

\* One run of install_maas on the controller, before the MAAS server it
\* installs has a registry.
InstallInit ==
  /\ nodes = [n \in SystemIds |-> NoNode]
  /\ lock = 0
  /\ pc = [p \in Procs |-> "idle"]
  /\ req = [p \in Procs |-> NoReq]
  /\ picked = [p \in Procs |-> 0]
  /\ grants = [n \in SystemIds |-> 0]
  /\ resp = NoResp
  /\ install = NotStarted

InstallNext ==
  \/ install_maas_add_repository
  \/ install_maas_apt_update
  \/ install_maas_apt_install
  \/ install_maas_while
  \/ \E input \in EthNames : install_maas_ask_device(input)
  \/ \E input \in Answers : install_maas_ask_confirm(input)
  \/ install_maas_put_template
  \/ install_maas_sed
  \/ install_maas_mv_template
  \/ install_maas_rm_template_bak
  \/ install_maas_put_sudoers
  \/ install_maas_append
  \/ install_maas_mv_sudoers
  \/ install_maas_rm_sudoers_bak
  \/ install_maas_else

SpecInstall == InstallInit /\ [][InstallNext]_vars

\* ------------------------------------------------------------ the claims
\* The nodes that are available to request r: READY, without owner, visible
\* to the requester and meeting the constraints of the request.
Matching(r) ==
  {n \in SystemIds : /\ nodes[n].status = READY
                     /\ nodes[n].owner = NoUser
                     /\ canView(r.user, nodes[n])
                     /\ (r.arch = NoArch \/ Architecture(n) = r.arch)}

\* C1: under any interleaving of acquire requests a node is granted to at most
\* one requester: no node is returned by two acquire calls without a release
\* of that node in between.
C1_AtMostOneGrant == \A n \in SystemIds : grants[n] <= 1

\* Reached: one request was granted a node while another request, which that
\* node would have matched, found no match.
C1_Witness ==
  \E p, q \in Procs :
    /\ p # q
    /\ pc[p] = "granted" /\ grants[picked[p]] = 1
    /\ pc[q] = "nomatch"
    /\ req[q].arch \in {NoArch, Architecture(picked[p])}

\* Under SpecRace: the nodes that were available to request r when the
\* requests began, i.e. those still available and those granted since.
RacePool(r) ==
  Matching(r) \cup
  {n \in SystemIds : /\ \E p \in Procs : pc[p] = "granted" /\ picked[p] = n
                     /\ (r.arch = NoArch \/ Architecture(n) = r.arch)}

\* C2: two acquire calls against a pool whose only available node matching
\* either request is one node n, both run to their end without an error of
\* node.acquire and with no third call granted n: exactly one of them is
\* granted n and the other ends with NodesNotAvailable.
C2_ExactlyOneWins ==
  \A p, q \in Procs, n \in SystemIds :
    ( /\ p # q
      /\ pc[p] \in {"granted", "nomatch"}
      /\ pc[q] \in {"granted", "nomatch"}
      /\ RacePool(req[p]) = {n}
      /\ RacePool(req[q]) = {n}
      /\ \A r \in Procs \ {p, q} : ~(pc[r] = "granted" /\ picked[r] = n) )
    => \/ pc[p] = "granted" /\ picked[p] = n /\ pc[q] = "nomatch"
       \/ pc[q] = "granted" /\ picked[q] = n /\ pc[p] = "nomatch"

\* Reached: of two finished calls whose requests both matched the single
\* available node, one holds the node and the other found no match.
C2_Witness ==
  \E p, q \in Procs, n \in SystemIds :
    /\ p # q
    /\ RacePool(req[p]) = {n} /\ RacePool(req[q]) = {n}
    /\ pc[p] = "granted" /\ picked[p] = n /\ nodes[n].owner = req[p].user
    /\ pc[q] = "nomatch"

\* C3: the lock is held exactly while a request reads the pool, picks and
\* marks the node; it is freed either with no match found (no node changed),
\* or with the error of node.acquire, or together with the update of the
\* winner's status and owner; once an acquire call has finished the lock is
\* not held by it.
C3_LockDiscipline ==
  /\ [](\A p \in Procs : (lock = p) <=> (pc[p] \in {"locked", "picked"}))
  /\ [](lock \in Procs \cup {0})
  /\ [][\A p \in Procs :
         (lock = p /\ lock' # p) =>
           /\ lock' = 0
           /\ \/ pc[p] = "locked" /\ pc'[p] = "nomatch" /\ nodes' = nodes
              \/ pc[p] = "picked" /\ pc'[p] = "error" /\ nodes' = nodes
              \/ /\ pc[p] = "picked" /\ pc'[p] = "granted"
                 /\ nodes'[picked[p]].status = ALLOCATED
                 /\ nodes'[picked[p]].owner = req[p].user]_vars

\* Reached: an acquire call ended with the error of node.acquire and the lock
\* is free while another request waits for it.
C3_Witness ==
  \E p, q \in Procs : pc[p] = "error" /\ pc[q] = "valid" /\ lock = 0

\* C4: the node a request picks is READY, without owner and visible to the
\* requester when it is picked, and was not granted since its last release;
\* the grant leaves it ALLOCATED, owned by the requester, with the agent_name
\* of the request, and changes no other node.
C4_GrantEffect ==
  /\ [][\A p \in Procs :
         (pc[p] = "locked" /\ pc'[p] = "picked") =>
           LET n == picked'[p]
           IN /\ nodes[n].status = READY
              /\ nodes[n].owner = NoUser
              /\ canView(req[p].user, nodes[n])
              /\ grants[n] = 0]_vars
  /\ [][\A p \in Procs :
         (pc[p] = "picked" /\ pc'[p] = "granted") =>
           LET n == picked[p]
           IN /\ nodes'[n].status = ALLOCATED
              /\ nodes'[n].owner = req[p].user
              /\ nodes'[n].agent_name = req[p].agent_name
              /\ \A m \in SystemIds \ {n} : nodes'[m] = nodes[m]]_vars

\* Reached: a request carrying an agent_name was granted a node.
C4_Witness ==
  \E p \in Procs :
    /\ pc[p] = "granted"
    /\ req[p].agent_name # NoAgent
    /\ nodes[picked[p]].owner = req[p].user
    /\ nodes[picked[p]].agent_name = req[p].agent_name

\* C5: when several available nodes match, the node picked is the one with
\* the lowest identifier among them.
C5_FirstByIdentifier ==
  [][\A p \in Procs :
       (pc[p] = "locked" /\ pc'[p] = "picked") =>
         /\ picked'[p] \in Matching(req[p])
         /\ \A m \in Matching(req[p]) : picked'[p] <= m]_vars

\* Reached: a node was picked while at least two available nodes matched.
C5_Witness ==
  \E p \in Procs :
    /\ pc[p] = "picked"
    /\ Cardinality(Matching(req[p])) >= 2
    /\ \A m \in Matching(req[p]) : picked[p] <= m

\* C6: a request that holds the lock while no available node matches can
\* always take its next step, that step ends the call with NodesNotAvailable,
\* and the call ends so only when nothing matches; the step changes no node.
C6_NoMatchFailsFast ==
  /\ [](\A p \in Procs :
         (pc[p] = "locked" /\ Matching(req[p]) = {}) => ENABLED AcquirePick(p))
  /\ [][\A p \in Procs :
         (pc[p] = "locked" /\ pc'[p] # "locked") =>
           /\ (Matching(req[p]) = {}) <=> (pc'[p] = "nomatch")
           /\ pc'[p] = "nomatch" => (nodes' = nodes /\ lock' = 0)]_vars

\* Reached: a request found no match although a READY node exists.
C6_Witness ==
  \E p \in Procs, n \in SystemIds :
    pc[p] = "nomatch" /\ nodes[n].status = READY /\ lock = 0

\* C7 as claimed: in a listing, nodes whose statuses are in the allocated
\* group show one status value, nodes whose statuses are in the releasing
\* group show one status value, and the two values differ.
C7_TwoCoarseValues ==
  [][(resp'.op = "list" /\ pc' = pc) =>
         \A i, j \in DOMAIN resp'.body :
           LET si == nodes[resp'.body[i].system_id].status
               sj == nodes[resp'.body[j].system_id].status
           IN /\ (si \in old_allocated_status_aliases
                  /\ sj \in old_allocated_status_aliases)
                 => resp'.body[i].status = resp'.body[j].status
              /\ (si \in old_deployed_status_aliases
                  /\ sj \in old_deployed_status_aliases)
                 => resp'.body[i].status = resp'.body[j].status
              /\ (si \in old_allocated_status_aliases
                  /\ sj \in old_deployed_status_aliases)
                 => resp'.body[i].status # resp'.body[j].status]_vars

\* C7, amended: nodes whose statuses are in either group all show the one
\* status value 6, in listings and in single reads: the two groups are not
\* told apart.
C7_OneCoarseValue ==
  /\ [][(resp'.op = "list" /\ pc' = pc) =>
           \A i \in DOMAIN resp'.body :
             nodes[resp'.body[i].system_id].status \in
                 {ALLOCATED, DEPLOYING, DEPLOYED, FAILED_DEPLOYMENT, RELEASING,
                  DISK_ERASING, FAILED_RELEASING, FAILED_DISK_ERASING}
               => resp'.body[i].status = 6]_vars
  /\ [][(resp'.op = "read" /\ resp'.code = 200 /\ pc' = pc) =>
           (nodes[resp'.node.system_id].status \in
                 {ALLOCATED, DEPLOYING, DEPLOYED, FAILED_DEPLOYMENT, RELEASING,
                  DISK_ERASING, FAILED_RELEASING, FAILED_DISK_ERASING}
               => resp'.node.status = 6)]_vars

\* Reached: a listing shows a node of the allocated group and a node of the
\* releasing group with the same status value.
C7_Witness ==
  /\ resp.op = "list"
  /\ \E i, j \in DOMAIN resp.body :
       /\ nodes[resp.body[i].system_id].status \in old_allocated_status_aliases
       /\ nodes[resp.body[j].system_id].status \in old_deployed_status_aliases
       /\ resp.body[i].status = resp.body[j].status

\* C8: every read and every listing shows, for each node, a substatus equal
\* to the status stored at that moment, and a status computed from that
\* stored status; reading changes no node.
C8_SubstatusIsStored ==
  /\ [][(resp'.op = "read" /\ resp'.code = 200 /\ pc' = pc) =>
           LET n == resp'.node.system_id
           IN /\ resp'.node.substatus = nodes[n].status
              /\ resp'.node.status =
                   IF nodes[n].status \in deployed_aliases
                   THEN 6 ELSE nodes[n].status
              /\ nodes' = nodes]_vars
  /\ [][(resp'.op = "list" /\ pc' = pc) =>
           /\ \A i \in DOMAIN resp'.body :
                LET n == resp'.body[i].system_id
                IN /\ resp'.body[i].substatus = nodes[n].status
                   /\ resp'.body[i].status =
                        IF nodes[n].status \in deployed_aliases
                        THEN 6 ELSE nodes[n].status
           /\ nodes' = nodes]_vars

\* Reached: a node was released and then read; the read shows the stored
\* status RELEASING as substatus and another value as status.
C8_Witness ==
  /\ resp.op = "read" /\ resp.code = 200
  /\ nodes[resp.node.system_id].status = RELEASING
  /\ nodes[resp.node.system_id].owner = NoUser
  /\ resp.node.substatus = RELEASING
  /\ resp.node.status # resp.node.substatus

\* C9: release of a READY node changes no node and calls release_or_erase on
\* none; it answers 200 to an actor with edit permission on the node (403
\* otherwise). In a bulk release a READY node is left as it is and is not
\* among the ids returned; when all the ids are READY nodes the actor may
\* edit, the call answers 200 with an empty list. The node is READY after the
\* call as before it, so a repeated release meets the same case.
C9_ReleaseReadyIsNoOp ==
  /\ [][\A u \in Actors, n \in SystemIds :
         (NodeHandler_release(u, n) /\ nodes[n].status = READY) =>
           /\ nodes' = nodes
           /\ resp'.called = {}
           /\ resp'.code = IF canEdit(u, nodes[n]) THEN 200 ELSE 403]_vars
  /\ [][(resp'.op = "bulk_release" /\ pc' = pc) =>
         LET u == resp'.user
             ids == resp'.ids
         IN
           /\ \A n \in ids \cap SystemIds :
                nodes[n].status = READY =>
                  /\ nodes'[n] = nodes[n]
                  /\ n \notin resp'.called
                  /\ resp'.code = 200 => n \notin resp'.body
           /\ ( /\ ids \subseteq SystemIds
                /\ \A n \in ids : nodes[n].status = READY /\ canEdit(u, nodes[n]) )
              => (resp'.code = 200 /\ resp'.body = {} /\ nodes' = nodes)]_vars

\* Reached: a bulk release over a READY node and an owned node answered 200
\* and returned the other node only.
C9_Witness ==
  /\ resp.op = "bulk_release" /\ resp.code = 200
  /\ \E n, m \in resp.ids :
       /\ n \notin resp.body /\ nodes[n].status = READY
       /\ m \in resp.body

\* C10: release of a single node whose status is neither READY nor
\* releasable, by an actor with edit permission on it, answers 409
\* (NodeStateViolation); whoever the actor is, the call does not succeed,
\* changes no node and calls release_or_erase on none.
C10_ReleaseNotReleasable ==
  [][\A u \in Actors, n \in SystemIds :
       ( /\ NodeHandler_release(u, n)
         /\ nodes[n].status \notin
              {READY, ALLOCATED, DEPLOYING, DEPLOYED, FAILED_DEPLOYMENT,
               DISK_ERASING, FAILED_DISK_ERASING, RELEASING, FAILED_RELEASING} )
       => /\ resp'.code = IF canEdit(u, nodes[n]) THEN 409 ELSE 403
          /\ nodes' = nodes
          /\ resp'.called = {}]_vars

\* Reached: a release answered 409 while a node in status NEW, COMMISSIONING,
\* BROKEN or RETIRED exists.
C10_Witness ==
  /\ resp.op = "release" /\ resp.code = 409
  /\ \E n \in SystemIds :
       nodes[n].status \in {NEW_STATUS, COMMISSIONING, BROKEN, RETIRED}

\* C11: a release that succeeds on a node in a releasable status (the caller
\* has edit permission on it) answers 200, leaves the node without owner and
\* in status READY or RELEASING, and changes no other node; the answer is
\* given while the node may still be RELEASING. A RELEASING node is made
\* READY, without owner, by the completion report of the workflow, which can
\* arrive in every state in which the node is RELEASING.
C11_ReleaseClearsOwner ==
  /\ [][(resp'.op = "release" /\ pc' = pc) =>
         \A u \in Actors, n \in SystemIds :
           ( /\ NodeHandler_release(u, n)
             /\ canEdit(u, nodes[n])
             /\ nodes[n].status \in
                  {ALLOCATED, DEPLOYING, DEPLOYED, FAILED_DEPLOYMENT,
                   DISK_ERASING, FAILED_DISK_ERASING, RELEASING,
                   FAILED_RELEASING} )
           => /\ resp'.code = 200
              /\ resp'.called = {n}
              /\ nodes'[n].owner = NoUser
              /\ nodes'[n].status \in {READY, RELEASING}
              /\ \A m \in SystemIds \ {n} : nodes'[m] = nodes[m]]_vars
  /\ [][(resp'.op = "release_complete" /\ pc' = pc) =>
         \A n \in resp'.called :
           /\ nodes[n].status = RELEASING
           /\ nodes'[n].status = READY
           /\ nodes'[n].owner = NoUser]_vars
  /\ [](\A n \in SystemIds :
          nodes[n].status = RELEASING => ENABLED release_complete(n))

\* Reached: a release of an owned node has answered 200 and the node is
\* RELEASING, without owner.
C11_Witness ==
  /\ resp.op = "release" /\ resp.code = 200
  /\ \E n \in resp.called :
       nodes[n].status = RELEASING /\ nodes[n].owner = NoUser

\* C12 as claimed: in every state reached by enlisting, accepting,
\* commissioning, acquiring, releasing, marking broken or fixed, aborting and
\* checking commissioning, a node has an owner if and only if its status is
\* ALLOCATED, DEPLOYING, DEPLOYED, RELEASING, DISK_ERASING, FAILED_DEPLOYMENT,
\* FAILED_RELEASING or FAILED_DISK_ERASING.
C12_OwnerIffOwnedStatus ==
  \A n \in SystemIds :
    nodes[n] # NoNode =>
      ( nodes[n].owner # NoUser <=>
          nodes[n].status \in
            {ALLOCATED, DEPLOYING, DEPLOYED, RELEASING, DISK_ERASING,
             FAILED_DEPLOYMENT, FAILED_RELEASING, FAILED_DISK_ERASING} )

\* C12, amended: in every such state a node that has an owner is in one of
\* those statuses, and a node that has no owner is in none of them other
\* than RELEASING (a released node whose release is not complete yet).
C12_OwnerImpliesOwnedStatus ==
  \A n \in SystemIds :
    nodes[n] # NoNode =>
      /\ nodes[n].owner # NoUser =>
           nodes[n].status \in
             {ALLOCATED, DEPLOYING, DEPLOYED, RELEASING, DISK_ERASING,
              FAILED_DEPLOYMENT, FAILED_RELEASING, FAILED_DISK_ERASING}
      /\ nodes[n].owner = NoUser =>
           nodes[n].status \notin
             {ALLOCATED, DEPLOYING, DEPLOYED, DISK_ERASING,
              FAILED_DEPLOYMENT, FAILED_RELEASING, FAILED_DISK_ERASING}

\* Reached: a node granted to an acquire request is ALLOCATED with the
\* requester as owner, while another node is RELEASING without owner.
C12_Witness ==
  \E n, m \in SystemIds, p \in Procs :
    /\ pc[p] = "granted" /\ picked[p] = n
    /\ nodes[n].status = ALLOCATED /\ nodes[n].owner = req[p].user
    /\ nodes[m].status = RELEASING /\ nodes[m].owner = NoUser

C14_PermissionDeniedWholly ==
  [][(resp'.op \in {"accept", "bulk_release"} /\ pc' = pc) =>
       LET u == resp'.user
           ids == resp'.ids
           permitted(n) ==
             IF resp'.op = "accept" THEN u = Admin
             ELSE u = Admin \/ nodes[n].owner = u
           denied == {n \in ids : ~permitted(n)}
       IN (\A i \in ids : i \in SystemIds /\ nodes[i] # NoNode) =>
            /\ denied # {} =>
                 /\ resp'.code = 403
                 /\ resp'.body = denied
                 /\ resp'.called = {}
                 /\ nodes' = nodes
            /\ denied = {} => resp'.code # 403]_vars

\* Reached: alice sent a bulk release naming a node she owns and a node she
\* does not; the answer is 403, lists the other node only, and her node is
\* still ALLOCATED.
C14_Witness ==
  /\ resp.op = "bulk_release" /\ resp.code = 403 /\ resp.user = "alice"
  /\ \E n, m \in resp.ids :
       /\ nodes[n].owner = "alice" /\ nodes[n].status = ALLOCATED
       /\ n \notin resp.body
       /\ resp.body = {m}

\* C15: in a bulk release and in a bulk accept that passed the existence and
\* permission checks, every node of the request is processed whatever the
\* state of the others: every releasable node is released (every NEW node is
\* accepted), and when some nodes are in an incompatible state the answer is
\* 409 and names every one of them; the changes made are kept.
C15_ProcessedIndependently ==
  [][(resp'.op \in {"accept", "bulk_release"} /\ resp'.code \notin {400, 403}
      /\ pc' = pc) =>
       LET ids == resp'.ids
           compatible ==
             IF resp'.op = "accept"
             THEN {NEW_STATUS, COMMISSIONING, READY}
             ELSE {READY, ALLOCATED, DEPLOYING, DEPLOYED, FAILED_DEPLOYMENT,
                   DISK_ERASING, FAILED_DISK_ERASING, RELEASING,
                   FAILED_RELEASING}
           failing == {n \in ids : nodes[n].status \notin compatible}
       IN /\ \A n \in ids :
               IF resp'.op = "accept"
               THEN nodes[n].status = NEW_STATUS =>
                      nodes'[n].status = COMMISSIONING
               ELSE nodes[n].status \in compatible \ {READY} =>
                      /\ n \in resp'.called
                      /\ nodes'[n].owner = NoUser
                      /\ nodes'[n].status \in {READY, RELEASING}
          /\ failing # {} => (resp'.code = 409 /\ resp'.body = failing)
          /\ failing = {} => resp'.code = 200]_vars

C17_AcceptOnlyFromNew ==
  /\ [][(resp'.op \in {"accept", "accept_all"} /\ pc' = pc) =>
         LET changed == {n \in SystemIds : nodes'[n].status # nodes[n].status}
         IN /\ \A n \in SystemIds :
                 nodes'[n] # nodes[n] =>
                   /\ nodes[n].status = NEW_STATUS
                   /\ nodes'[n] = [nodes[n] EXCEPT !.status = COMMISSIONING]
            /\ resp'.code = 200 => resp'.body = changed
            /\ resp'.op = "accept" => changed \subseteq resp'.ids
            /\ resp'.op = "accept_all" =>
                 /\ resp'.code = 200
                 /\ changed = IF resp'.user = Admin
                              THEN {n \in SystemIds : nodes[n].status = NEW_STATUS}
                              ELSE {}]_vars
  /\ [][( /\ resp'.op = "accept" /\ resp'.user = Admin /\ pc' = pc
          /\ \A i \in resp'.ids :
               /\ i \in SystemIds
               /\ nodes[i].status \in {NEW_STATUS, COMMISSIONING, READY} )
         => /\ resp'.code = 200
            /\ resp'.body = {n \in resp'.ids : nodes[n].status = NEW_STATUS}]_vars

\* Reached: the administrator's bulk accept over a NEW node and a READY node
\* answered 200 and returned the first only, now COMMISSIONING.
C17_Witness ==
  /\ resp.op = "accept" /\ resp.code = 200
  /\ \E n, m \in resp.ids :
       /\ resp.body = {n} /\ nodes[n].status = COMMISSIONING
       /\ m # n /\ nodes[m].status = READY

C19_MarkBroken ==
  [][(resp'.op = "mark_broken" /\ pc' = pc) =>
       \A u \in Actors, n \in SystemIds, d \in {"", "psu failure"} :
         NodeHandler_mark_broken(u, n, d) =>
           IF u = Admin \/ nodes[n].owner = u
           THEN /\ resp'.code = 200
                /\ nodes'[n].status = BROKEN
                /\ nodes'[n].owner = NoUser
                /\ nodes'[n].error_description = d
                /\ \A m \in SystemIds \ {n} : nodes'[m] = nodes[m]
           ELSE /\ resp'.code = 403
                /\ nodes' = nodes]_vars

\* Reached: a node was marked broken with a reason; it is BROKEN, without
\* owner, and the reason is recorded.
C19_Witness ==
  /\ resp.op = "mark_broken" /\ resp.code = 200
  /\ \E n \in resp.called :
       /\ nodes[n].status = BROKEN
       /\ nodes[n].owner = NoUser
       /\ nodes[n].error_description = "psu failure"

\* C20: mark_fixed by the administrator on a BROKEN node answers 200 and
\* makes the node READY, changing no other node; on a node in any other
\* status it answers 409 (NodeStateViolation), and for any other actor 403,
\* and no node changes. A node goes from BROKEN to READY only in a mark_fixed
\* step that answers 200.
C20_MarkFixed ==
  /\ [][(resp'.op = "mark_fixed" /\ pc' = pc) =>
         \A u \in Actors, n \in SystemIds :
           NodeHandler_mark_fixed(u, n) =>
             IF u = Admin /\ nodes[n].status = BROKEN
             THEN /\ resp'.code = 200
                  /\ nodes'[n].status = READY
                  /\ \A m \in SystemIds \ {n} : nodes'[m] = nodes[m]
             ELSE /\ resp'.code = IF u = Admin THEN 409 ELSE 403
                  /\ nodes' = nodes]_vars
  /\ [][\A n \in SystemIds :
         (nodes[n].status = BROKEN /\ nodes'[n].status = READY) =>
           (resp'.op = "mark_fixed" /\ resp'.code = 200 /\ resp'.called = {n})]_vars

\* Reached: a BROKEN node was marked fixed and is READY.
C20_Witness ==
  /\ resp.op = "mark_fixed" /\ resp.code = 200
  /\ \E n \in resp.called : nodes[n].status = READY

\* C21: a lifecycle transition is committed only on the status its request
\* observed. The handlers other than acquire read the node and call the
\* transition in one step of the registry; an acquire observes its node READY
\* and without owner when it picks it under the lock, so the claim requires
\* that, when node.acquire commits, no concurrent release, mark_broken,
\* mark_fixed, commission, accept or abort_operation has changed that node in
\* between: the two requests cannot both succeed.
C21_CommitOnObservedStatus ==
  [][\A p \in Procs :
       (pc[p] = "picked" /\ pc'[p] = "granted") =>
         /\ nodes[picked[p]].status = READY
         /\ nodes[picked[p]].owner = NoUser]_vars

\* The names an architecture or a subarchitecture is made of, and the strings
\* of the form `arch/subarch`.
ArchNames == {"amd64", "i386", "generic", "highbank"}

ArchSubarchForm == {a \o "/" \o b : a, b \in ArchNames}

\* C22: create_node stores an architecture of the form arch/subarch only. A
\* request naming an architecture with '/' and a subarchitecture answers a
\* validation error and creates no node. Of the other requests, the one with
\* an architecture with '/' has it stored as given, the one with a bare
\* architecture and a subarchitecture has `arch/subarch` stored, the one with
\* a bare architecture alone `arch/generic`; the node is created exactly when
\* that string has the form arch/subarch (and the nodegroup can be found),
\* and a request that fails changes no node.
C22_ArchitectureNormalized ==
  [][(resp'.op = "new" /\ pc' = pc) =>
       LET data == resp'.data
           arch == IF "architecture" \in DOMAIN data
                   THEN data["architecture"] ELSE <<>>
           subarch == IF "subarchitecture" \in DOMAIN data
                      THEN data["subarchitecture"] ELSE <<>>
           slash == "/" \in {arch[i] : i \in DOMAIN arch}
           twice == slash /\ subarch # <<>>
           expected == IF slash THEN Str(arch)
                       ELSE IF subarch # <<>>
                       THEN Str(arch) \o "/" \o Str(subarch)
                       ELSE Str(arch) \o "/generic"
           stored == /\ ~twice
                     /\ expected \in ArchSubarchForm
                     /\ "autodetect_nodegroup" \in DOMAIN data
       IN IF stored
          THEN /\ resp'.code = 200
               /\ \E n \in SystemIds :
                    /\ resp'.called = {n}
                    /\ nodes[n] = NoNode
                    /\ nodes'[n].architecture = expected
                    /\ \A m \in SystemIds \ {n} : nodes'[m] = nodes[m]
          ELSE /\ resp'.code = 400
               /\ nodes' = nodes]_vars

\* Reached: a request with the bare architecture amd64 and no subarchitecture
\* created a node, stored with amd64/generic.
C22_Witness ==
  /\ resp.op = "new" /\ resp.code = 200
  /\ "subarchitecture" \notin DOMAIN resp.data
  /\ resp.data["architecture"] = <<"amd64">>
  /\ \E n \in resp.called : nodes[n].architecture = "amd64/generic"

\* The requests whose VLAN constraint names tag 0 or tag 4096.
OutOfRange(r) ==
  r.networks \in {<<<<"vlan", ":", "0">>>>,
                  <<<<"vlan", ":", "4", "0", "9", "6">>>>}

\* C23: an acquire request whose VLAN constraint names a tag outside 1..4095
\* (0 or 4096) fails with a validation error when it is received: the step
\* changes neither the lock nor any node, the request never takes the lock,
\* never picks a node and never ends in NodesNotAvailable, and the worker
\* goes on to its next request. A request with a tag within the range is
\* taken to the lock.
C23_InvalidVlanFailsBeforeLock ==
  /\ [][\A p \in Procs :
         (pc[p] = "idle" /\ pc'[p] # "idle") =>
           IF OutOfRange(req'[p])
           THEN /\ pc'[p] = "invalid"
                /\ lock' = lock /\ nodes' = nodes /\ picked' = picked
           ELSE pc'[p] = "valid"]_vars
  /\ [][\A p \in Procs :
         pc[p] = "invalid" =>
           /\ pc'[p] \in {"invalid", "idle"}
           /\ pc'[p] = "idle" =>
                (lock' = lock /\ nodes' = nodes /\ grants' = grants)]_vars
  /\ [](\A p \in Procs :
         OutOfRange(req[p]) =>
           /\ pc[p] = "invalid"
           /\ lock # p
           /\ picked[p] = 0)

\* Reached: a request with VLAN tag 4096 was refused with a validation
\* error, while a request with tag 1, valid and carried by no node, ended in
\* NodesNotAvailable.
C23_Witness ==
  \E p, q \in Procs :
    /\ pc[p] = "invalid"
    /\ req[p].networks = <<<<"vlan", ":", "4", "0", "9", "6">>>>
    /\ pc[q] = "nomatch"
    /\ req[q].networks = <<<<"vlan", ":", "1">>>>

\* The nodes that have been COMMISSIONING for the timeout or longer, before
\* and after a step.
Overdue == {n \in SystemIds : /\ nodes[n].status = COMMISSIONING
                              /\ nodes[n].age >= COMMISSIONING_TIMEOUT}

OverdueAfter == {n \in SystemIds : /\ nodes'[n].status = COMMISSIONING
                                   /\ nodes'[n].age >= COMMISSIONING_TIMEOUT}

\* C24: check_commissioning, whoever calls it, answers with exactly the nodes
\* that are COMMISSIONING and were last updated the commissioning timeout ago
\* or earlier; it leaves these FAILED_COMMISSIONING, just updated and
\* otherwise as they were, and every other node unchanged, a COMMISSIONING
\* node updated more recently included. No node is overdue when it returns,
\* so a second run right after it moves and returns nothing.
C24_CheckCommissioning ==
  [][(resp'.op = "check_commissioning" /\ pc' = pc /\ ~Tick) =>
       /\ resp'.code = 200
       /\ resp'.body = Overdue
       /\ \A n \in Overdue :
            /\ nodes'[n].status = FAILED_COMMISSIONING
            /\ nodes'[n].age = 0
            /\ nodes'[n] = [nodes[n] EXCEPT !.status = FAILED_COMMISSIONING,
                                            !.age = 0]
       /\ \A n \in SystemIds \ Overdue : nodes'[n] = nodes[n]
       /\ OverdueAfter = {}
       /\ Overdue = {} => nodes' = nodes]_vars

\* Reached: check_commissioning has moved a node to FAILED_COMMISSIONING and
\* left alone another one that has been COMMISSIONING for less than the
\* timeout.
C24_Witness ==
  /\ resp.op = "check_commissioning"
  /\ \E n \in resp.body, m \in SystemIds :
       /\ nodes[n].status = FAILED_COMMISSIONING /\ nodes[n].age = 0
       /\ nodes[m].status = COMMISSIONING
       /\ nodes[m].age > 0 /\ nodes[m].age < COMMISSIONING_TIMEOUT

\* The statements of install_maas in the order of the listing.
InstallOrder ==
  <<"add_repository", "apt_update", "apt_install", "while", "ask_device",
    "ask_confirm", "put_template", "sed", "mv_template", "rm_template_bak",
    "put_sudoers", "append", "mv_sudoers", "rm_sudoers_bak", "else",
    "returned">>

InstallRank(position) ==
  CHOOSE i \in DOMAIN InstallOrder : InstallOrder[i] = position

\* Wake-on-LAN is configured: the power template calls etherwake on the
\* device that was named, and the sudoers file that allows it is installed.
WakeOnLanConfigured ==
  /\ install.power_template = replaceExp(install.eth_name)
  /\ install.sudoers = <<"# sudoers file of maas", SudoersText>>

\* Nothing of the wake-on-LAN configuration has been touched.
WakeOnLanUntouched ==
  /\ install.power_template \in {NoText, searchExp}
  /\ install.tmp_template = NoText /\ ~install.tmp_template_bak
  /\ install.tmp_sudoers = NoLines /\ install.sudoers = NoLines

\* C25: install_maas asks for the device name and for the confirmation once:
\* neither prompt is ever made a second time, every step moves forward in
\* the listing (the while test is made once, no statement is repeated) and a
\* run that has not returned can take a step, so the installer returns. When
\* it has returned, both prompts were made once, and wake-on-LAN is
\* configured, with no temporary file left, exactly when the answer was 'y';
\* with any other answer nothing of that configuration is touched at any
\* time, and the step after the answer is the return.
C25_AsksOnceThenReturns ==
  /\ [](install.device_prompts <= 1 /\ install.confirm_prompts <= 1)
  /\ [][install' # install =>
          InstallRank(install'.pc) > InstallRank(install.pc)]_vars
  /\ [](install.pc # "returned" => ENABLED InstallNext)
  /\ [](install.pc = "returned" =>
          /\ install.device_prompts = 1 /\ install.confirm_prompts = 1
          /\ IF install.answer = "y"
             THEN /\ WakeOnLanConfigured
                  /\ install.tmp_template = NoText
                  /\ ~install.tmp_template_bak
                  /\ install.tmp_sudoers = NoLines
             ELSE WakeOnLanUntouched)
  /\ [](install.answer # "y" => WakeOnLanUntouched)
  /\ [][(install.pc = "ask_confirm" /\ install'.answer # "y"
         /\ install' # install) =>
          install'.pc = "else"]_vars
  /\ [][(install.pc = "else" /\ install' # install) =>
          install'.pc = "returned"]_vars

\* Reached: the installer has returned after an answer that is neither 'y'
\* nor 'n', having asked once and configured nothing.
C25_Witness ==
  /\ install.pc = "returned"
  /\ install.answer = "yes"
  /\ install.confirm_prompts = 1
  /\ WakeOnLanUntouched

====
